---- MODULE Spec2Model ----
(***************************************************************************)
(* Model of searchConfig (src/search_config.py, src/pd-search_config.py):  *)
(* the section-aware search of a list of checks in a list of device        *)
(* configuration texts.  The two source files hold the same searchConfig.  *)
(*                                                                         *)
(* A text is a sequence of one-character strings.  A Python dict is a      *)
(* function from its keys to its values; dicts live in a heap and lists    *)
(* hold references (heap indices), so that sharing between input_strings   *)
(* and result is visible.                                                  *)
(***************************************************************************)
EXTENDS Integers, Sequences, FiniteSets, TLC

VARIABLES config_list,    \* list of dicts with "hostname" and "text"
          input_strings,  \* list of references to the check dicts
          heap,           \* the dict objects, by reference
          result,         \* list of references to the verdict dicts
          conf_i,         \* position of the outer loop (for conf in config_list)
          input_i,        \* position of the inner loop (for input_string in input_strings)
          section_match,  \* the local `section`: <<>> for None, else <<start, end>>
          pc,             \* "loop", "returned" or "raised"
          exc             \* the exception that left searchConfig, "none" if none

vars == <<config_list, input_strings, heap, result, conf_i, input_i,
          section_match, pc, exc>>

---------------------------------------------------------------------------
(* Bounds and input alphabets *)

MaxTextLen == 5
MaxDocs == 2
MaxChecks == 2

TextAlphabet == {"a", ".", " ", "\n"}

Texts == UNION {[1..n -> TextAlphabet] : n \in 0..MaxTextLen}

\* section values: plain, pattern-special ("." and "("), and mixed
SectionChoices == {<<"a">>, <<".">>, <<"(">>, <<"a", ".">>}

\* match values: empty, plain, pattern-special
MatchChoices == {<<>>, <<"a">>, <<".">>}

Hostnames == {"h1", "h2"}

\* checks of the single-document specification: every combination of an
\* optional "section" and an optional "match"
SectionOnly == {("section" :> s) : s \in SectionChoices}
MatchOnly == {("match" :> m) : m \in MatchChoices}
BothKeys == {("section" :> s) @@ ("match" :> m) : s \in SectionChoices, m \in MatchChoices}
SingleChecks == SectionOnly \cup MatchOnly \cup BothKeys

\* checks and documents of the batch specification
BatchChecks ==
    { ("ref" :> "1.1.1") @@ ("match" :> <<".">>) @@ ("section" :> <<"a">>),
      ("ref" :> "2.1.1") @@ ("match" :> <<"a">>),
      ("match" :> <<>>),
      ("section" :> <<"a">>),
      ("match" :> <<"a">>) @@ ("section" :> <<"(">>) }

BatchTexts == {<<>>, <<"a", "\n", " ", ".">>}

BatchDocs == {("hostname" :> h) @@ ("text" :> t) : h \in Hostnames, t \in BatchTexts}

SeqsUpTo(S, n) == UNION {[1..k -> S] : k \in 0..n}

---------------------------------------------------------------------------
\* The pattern under re.MULTILINE: ^ then the section, then .*$ and [\n\r]*
\* (the header line), then any number of ^\s.*$ and [\n\r]* (the lines that
\* start with whitespace).  Positions are 1-based; position Len(text)+1 is the
\* end of the text.

\* [\n\r]
NewlineChars == {"\n", "\r"}

\* \s
WhitespaceChars == {" ", "\t", "\n", "\r", "\f"}

\* re.compile(pattern): "(" opens a group the pattern never closes
Compiles(section) == \A k \in 1..Len(section) : section[k] # "("

\* one element of the section as the pattern engine reads it: "." is any
\* character but newline, everything else stands for itself
MatchAtom(a, c) == IF a = "." THEN c # "\n" ELSE a = c

\* ^ under re.MULTILINE
AtLineStart(text, q) == q = 1 \/ text[q - 1] = "\n"

\* .*$ : to the end of the line
RECURSIVE LineEnd(_, _)
LineEnd(text, q) ==
    IF q > Len(text) \/ text[q] = "\n" THEN q ELSE LineEnd(text, q + 1)

\* [\n\r]* : greedy
RECURSIVE SkipNewlines(_, _)
SkipNewlines(text, q) ==
    IF q <= Len(text) /\ text[q] \in NewlineChars
    THEN SkipNewlines(text, q + 1)
    ELSE q

\* the repeated group ^\s.*$ [\n\r]* : greedy
RECURSIVE Continuation(_, _)
Continuation(text, q) ==
    IF AtLineStart(text, q) /\ q <= Len(text) /\ text[q] \in WhitespaceChars
    THEN Continuation(text, SkipNewlines(text, LineEnd(text, q + 1)))
    ELSE q

\* ^{section} at position p
HeaderAt(text, p, section) ==
    /\ AtLineStart(text, p)
    /\ p + Len(section) <= Len(text) + 1
    /\ \A k \in 1..Len(section) : MatchAtom(section[k], text[p + k - 1])

\* end (exclusive) of the match that starts at p
SectionEnd(text, p, section) ==
    Continuation(text, SkipNewlines(text, LineEnd(text, p + Len(section))))

\* regex.search(text): the leftmost match, <<>> for None
RegexSearch(section, text) ==
    LET starts == {p \in 1..(Len(text) + 1) : HeaderAt(text, p, section)}
    IN  IF starts = {} THEN <<>>
        ELSE LET p == CHOOSE s \in starts : \A t \in starts : s <= t
             IN  <<p, SectionEnd(text, p, section)>>

\* section[0]
MatchedText(text, m) == SubSeq(text, m[1], m[2] - 1)

\* The `in` operator on str, with "." read as a wildcard
ContainsAsPattern(hay, needle) ==
    \E k \in 0..(Len(hay) - Len(needle)) :
        \A n \in 1..Len(needle) : MatchAtom(needle[n], hay[k + n])

\* The `in` operator on str, refusing the empty needle
ContainsNonEmpty(hay, needle) ==
    /\ Len(needle) > 0
    /\ \E k \in 0..(Len(hay) - Len(needle)) :
        SubSeq(hay, k + 1, k + Len(needle)) = needle

\* The `in` operator on str
Contains(hay, needle) ==
    \E k \in 0..(Len(hay) - Len(needle)) :
        SubSeq(hay, k + 1, k + Len(needle)) = needle

---------------------------------------------------------------------------
(* One pass of the inner loop body *)

HasSection(item) == "section" \in DOMAIN item
HasMatch(item) == "match" \in DOMAIN item

\* the value of `section` after the body: the walrus assignment where it is
\* reached, the value it had (old) where it is not
SectionOf(item, text, old) ==
    IF HasSection(item) /\ Compiles(item["section"])
    THEN RegexSearch(item["section"], text)
    ELSE old

\* what the if/elif/else leaves in present_in_conf, or the exception it raises
PresentInConf(item, text) ==
    IF HasSection(item)
    THEN IF ~Compiles(item["section"]) THEN "re.error"
         ELSE LET m == RegexSearch(item["section"], text)
              IN  IF m # <<>>
                  THEN IF ~HasMatch(item) THEN "KeyError"
                       ELSE IF Contains(MatchedText(text, m), item["match"])
                            THEN "YES" ELSE "NO"
                  ELSE "NO"
    ELSE IF ~HasMatch(item) THEN "KeyError"
         ELSE IF Contains(text, item["match"]) THEN "YES" ELSE "NO"

\* item = input_string : no copy
DeepcopyAlias(h, r) == r

\* copy.deepcopy(input_string): the reference of the new object
Deepcopy(h, r) == Len(h) + 1

\* the heap once the copy exists
HeapWithCopy(h, r) == Append(h, h[r])

\* item["hostname"] = ...; item["configured"] = ...
SetVerdict(item, hostname, present) ==
    [k \in DOMAIN item \cup {"hostname", "configured"} |->
        IF k = "hostname" THEN hostname
        ELSE IF k = "configured" THEN present
        ELSE item[k]]

\* result = [item]
AppendItemReplace(res, r) == <<r>>

\* result.insert(0, item)
AppendItemFront(res, r) == <<r>> \o res

\* result.append(item)
AppendItem(res, r) == Append(res, r)

InLoop ==
    /\ pc = "loop"
    /\ conf_i <= Len(config_list)
    /\ input_i <= Len(input_strings)

conf == config_list[conf_i]
input_string == heap[input_strings[input_i]]

\* the loops move on: checks inner, documents outer
Advance ==
    IF input_i < Len(input_strings)
    THEN conf_i' = conf_i /\ input_i' = input_i + 1
    ELSE conf_i' = conf_i + 1 /\ input_i' = 1

\* the body completes and appends a verdict
Complete(present) ==
    LET item == Deepcopy(heap, input_strings[input_i])
        h1 == HeapWithCopy(heap, input_strings[input_i])
    IN  /\ heap' = [h1 EXCEPT ![item] = SetVerdict(h1[item], conf["hostname"], present)]
        /\ result' = AppendItem(result, item)
        /\ section_match' = SectionOf(input_string, conf["text"], section_match)
        /\ Advance
        /\ UNCHANGED <<config_list, input_strings, pc, exc>>

\* the body raises: the copy was made, nothing was appended
Raise(e) ==
    /\ heap' = HeapWithCopy(heap, input_strings[input_i])
    /\ section_match' = SectionOf(input_string, conf["text"], section_match)
    /\ pc' = "raised"
    /\ exc' = e
    /\ UNCHANGED <<config_list, input_strings, result, conf_i, input_i>>

\* if "section" in item.keys(): ... with a pattern that compiles
IterSection ==
    /\ InLoop
    /\ HasSection(input_string)
    /\ PresentInConf(input_string, conf["text"]) \in {"YES", "NO"}
    /\ Complete(PresentInConf(input_string, conf["text"]))

\* elif item["match"] in conf["text"]: ... else: ...
IterNoSection ==
    /\ InLoop
    /\ ~HasSection(input_string)
    /\ PresentInConf(input_string, conf["text"]) \in {"YES", "NO"}
    /\ Complete(PresentInConf(input_string, conf["text"]))

\* re.compile(pattern, re.MULTILINE) raises re.error
RaiseReError ==
    /\ InLoop
    /\ PresentInConf(input_string, conf["text"]) = "re.error"
    /\ Raise("re.error")

\* item["match"] raises KeyError
RaiseKeyError ==
    /\ InLoop
    /\ PresentInConf(input_string, conf["text"]) = "KeyError"
    /\ Raise("KeyError")

\* return result
Return ==
    /\ pc = "loop"
    /\ (conf_i > Len(config_list) \/ Len(input_strings) = 0)
    /\ pc' = "returned"
    /\ UNCHANGED <<config_list, input_strings, heap, result, conf_i, input_i,
                   section_match, exc>>

Next == IterSection \/ IterNoSection \/ RaiseReError \/ RaiseKeyError \/ Return

\* the state on entry to searchConfig, after result = []
Entry(docs, checks) ==
    /\ config_list = docs
    /\ heap = checks
    /\ input_strings = [k \in 1..Len(checks) |-> k]
    /\ result = <<>>
    /\ conf_i = 1
    /\ input_i = 1
    /\ section_match = <<>>
    /\ pc = "loop"
    /\ exc = "none"

\* lists of documents and of checks
Init ==
    \E docs \in SeqsUpTo(BatchDocs, MaxDocs), checks \in SeqsUpTo(BatchChecks, MaxChecks) :
        Entry(docs, checks)

Spec == Init /\ [][Next]_vars

\* one document, one check, every text
InitSingle ==
    \E text \in Texts, check \in SingleChecks :
        Entry(<<("hostname" :> "h1") @@ ("text" :> text)>>, <<check>>)

SpecSingle == InitSingle /\ [][Next]_vars

---------------------------------------------------------------------------
\* What the claims speak of, stated without the pattern engine

Verdict(k) == heap[result[k]]
Check(k) == heap[input_strings[k]]

\* the single-document specification: its text, its check, its verdict
TheText == config_list[1]["text"]
TheCheck == heap[input_strings[1]]
SingleDone == pc = "returned" /\ Len(config_list) = 1 /\ Len(result) = 1

PatternSpecial == {".", "("}
Plain(s) == \A k \in 1..Len(s) : s[k] \notin PatternSpecial

\* needle occurs in hay as a literal substring
IsSubstring(needle, hay) ==
    \E p \in 1..(Len(hay) + 1) :
        /\ p + Len(needle) <= Len(hay) + 1
        /\ \A n \in 1..Len(needle) : hay[p + n - 1] = needle[n]

\* the positions where a line starts and literally begins with s
LiteralHeaders(text, s) ==
    {p \in 1..(Len(text) + 1) :
        /\ (p = 1 \/ text[p - 1] = "\n")
        /\ p + Len(s) <= Len(text) + 1
        /\ \A n \in 1..Len(s) : text[p + n - 1] = s[n]}

FirstOf(S) == CHOOSE p \in S : \A q \in S : p <= q

\* the start of the line after the one that holds position q
RECURSIVE NextLine(_, _)
NextLine(text, q) ==
    IF q > Len(text) THEN q
    ELSE IF text[q] = "\n" THEN q + 1
    ELSE NextLine(text, q + 1)

\* from the line start q on, skip the lines that begin with a space or tab
RECURSIVE IndentedEnd(_, _)
IndentedEnd(text, q) ==
    IF q <= Len(text) /\ text[q] \in {" ", "\t"}
    THEN IndentedEnd(text, NextLine(text, q))
    ELSE q

\* the section block of the header line at p: the header line plus every
\* immediately following line that begins with a space or tab
Block(text, p) == SubSeq(text, p, IndentedEnd(text, NextLine(text, p)) - 1)

IsPrefix(s, t) == Len(s) <= Len(t) /\ \A k \in 1..Len(s) : s[k] = t[k]

Verdicts == [k \in 1..Len(result) |-> heap[result[k]]]

CheckKeys == {"ref", "match", "section"}

---------------------------------------------------------------------------
\* C1: when searchConfig returns, result holds len(config_list) times
\* len(input_strings) verdicts, and every verdict has a 'configured' value
\* that is "YES" or "NO".
C1_CountAndOutcome ==
    pc = "returned" =>
        /\ Len(result) = Len(config_list) * Len(input_strings)
        /\ \A k \in 1..Len(result) :
            /\ "configured" \in DOMAIN Verdict(k)
            /\ Verdict(k)["configured"] \in {"YES", "NO"}

C1_Witness ==
    /\ pc = "returned"
    /\ Len(config_list) = 2
    /\ Len(input_strings) = 2
    /\ Len(result) = 4

\* C2: for a check with a section, the verdict is "YES" exactly when match is a
\* substring of the block of the header line: the header line plus the lines
\* right after it that begin with a space or tab, ending at the first line
\* that does not (an empty line included).  Stated for the sections free of
\* pattern-special characters.
C2_BlockEndsAtFirstUnindentedLine ==
    (SingleDone /\ HasSection(TheCheck) /\ HasMatch(TheCheck)
        /\ Plain(TheCheck["section"])) =>
        LET heads == LiteralHeaders(TheText, TheCheck["section"])
        IN  (Verdict(1)["configured"] = "YES") <=>
                /\ heads # {}
                /\ IsSubstring(TheCheck["match"], Block(TheText, FirstOf(heads)))

\* C3: the line searchConfig takes as the header of the section literally
\* begins with the section string.
C3_HeaderIsLiteralPrefix ==
    (Len(config_list) = 1 /\ section_match # <<>>) =>
        section_match[1] \in LiteralHeaders(TheText, TheCheck["section"])

\* C4: a check without 'match' is rejected: no verdict is ever appended for
\* it, and with a document to search searchConfig does not return.
C4_MissingMatchRejected ==
    /\ \A k \in 1..Len(result) : HasMatch(Verdict(k))
    /\ ((\E k \in 1..Len(input_strings) : ~HasMatch(Check(k))) /\ config_list # <<>>)
        => pc # "returned"

\* C5: for a check with a section, when no line of the document begins with
\* the section string the verdict is "NO".
C5_AbsentSectionIsNo ==
    (SingleDone /\ HasSection(TheCheck)
        /\ LiteralHeaders(TheText, TheCheck["section"]) = {})
    => Verdict(1)["configured"] = "NO"

\* C6: when several lines begin with the section string, only the block of
\* the first of them is searched: match absent from that block gives "NO".
C6_FirstHeaderOnly ==
    (SingleDone /\ HasSection(TheCheck) /\ HasMatch(TheCheck)
        /\ Cardinality(LiteralHeaders(TheText, TheCheck["section"])) >= 2
        /\ ~IsSubstring(TheCheck["match"],
               Block(TheText, FirstOf(LiteralHeaders(TheText, TheCheck["section"])))))
    => Verdict(1)["configured"] = "NO"

\* C7: for a check without a section, the verdict is "YES" exactly when match
\* occurs in the text as a literal substring.
C7_NoSectionLiteralSubstring ==
    (SingleDone /\ ~HasSection(TheCheck)) =>
        ((Verdict(1)["configured"] = "YES") <=> IsSubstring(TheCheck["match"], TheText))

\* a pattern-special match that a wildcard reading would find, but is not there
C7_Witness ==
    /\ SingleDone
    /\ ~HasSection(TheCheck)
    /\ HasMatch(TheCheck)
    /\ TheCheck["match"] = <<".">>
    /\ TheText = <<"a", "\n", "a">>
    /\ Verdict(1)["configured"] = "NO"

\* C8 as claimed: a check whose match is the empty string always gets "YES".
C8_EmptyMatchAlwaysYes ==
    (SingleDone /\ HasMatch(TheCheck) /\ TheCheck["match"] = <<>>) => Verdict(1)["configured"] = "YES"

\* C8 as amended: a check whose match is the empty string gets "YES" when it
\* has no section; when it has a section it gets "YES" exactly when the
\* section search found a header line, and "NO" when the section is absent.
C8_EmptyMatchYesUnlessSectionAbsent ==
    (SingleDone /\ HasMatch(TheCheck) /\ TheCheck["match"] = <<>>) =>
        ((Verdict(1)["configured"] = "YES") <=>
            (~HasSection(TheCheck) \/ section_match # <<>>))

C8_Witness ==
    /\ SingleDone
    /\ HasSection(TheCheck)
    /\ HasMatch(TheCheck)
    /\ TheCheck["match"] = <<>>
    /\ section_match = <<>>
    /\ TheText # <<>>
    /\ Verdict(1)["configured"] = "NO"

\* C9: the verdicts only ever grow at the end, and on return the verdict at
\* (i-1)*len(input_strings)+j has the hostname of the i-th document and the
\* ref/match/section of the j-th check.
C9_DocumentOuterCheckInner ==
    /\ [][IsPrefix(Verdicts, Verdicts')]_vars
    /\ [](pc = "returned" =>
            \A i \in 1..Len(config_list) : \A j \in 1..Len(input_strings) :
                LET k == (i - 1) * Len(input_strings) + j
                IN  /\ k <= Len(result)
                    /\ Verdict(k)["hostname"] = config_list[i]["hostname"]
                    /\ DOMAIN Verdict(k) \cap CheckKeys = DOMAIN Check(j)
                    /\ \A f \in DOMAIN Check(j) : Verdict(k)[f] = Check(j)[f])

C9_Witness ==
    /\ pc = "returned"
    /\ Len(config_list) = 2
    /\ Len(input_strings) = 2
    /\ Len(result) = 4
    /\ config_list[1]["hostname"] # config_list[2]["hostname"]
    /\ Check(1) # Check(2)

\* C10: no step changes input_strings, the checks it refers to, config_list,
\* or a verdict already appended.
C10_InputsAndVerdictsUntouched ==
    [][ /\ input_strings' = input_strings
        /\ config_list' = config_list
        /\ \A k \in 1..Len(input_strings) : heap'[input_strings[k]] = heap[input_strings[k]]
        /\ \A k \in 1..Len(result) : heap'[result[k]] = heap[result[k]] ]_vars

\* two verdicts of one check, for two documents with different hostnames
C10_Witness ==
    /\ pc = "returned"
    /\ Len(config_list) = 2
    /\ Len(input_strings) = 1
    /\ Len(result) = 2
    /\ Verdict(1)["hostname"] # Verdict(2)["hostname"]
    /\ DOMAIN Check(1) \cap {"hostname", "configured"} = {}

====
